---- MODULE Spec2Model ----
(***************************************************************************)
(* A model of src/train.py: the Processor that loads a model and its       *)
(* weights, builds the optimizer, and then runs the epoch loop (train,     *)
(* checkpoint, evaluate) or a single evaluation pass.                      *)
(*                                                                         *)
(* Tensors are abstracted to integers: a freshly constructed model holds   *)
(* InitParams, every optimizer step adds one to every parameter.  A        *)
(* state_dict is an ordered sequence of <<name, value>> pairs.  A pickle   *)
(* file is the sequence of those pairs followed by the STOP token; a file  *)
(* that does not end in STOP cannot be unpickled.  The learning rate is a  *)
(* fixed-point decimal: the integer lr stands for lr / 10^MaxSteps.        *)
(*                                                                         *)
(* The program is read as it runs under Python 2 with torch 0.3, which its *)
(* idioms (loss.data[0], volatile=True, pickle through files opened in     *)
(* text mode) belong to: text-mode files carry pickles unchanged, and      *)
(* Module.load_state_dict is strict, raising KeyError on a name the module *)
(* does not have and on a parameter the state_dict does not cover.         *)
(* save_interval, eval_interval and base_lr are taken non-negative, the    *)
(* intervals positive.                                                     *)
(***************************************************************************)
EXTENDS Integers, Sequences, FiniteSets, TLC

\* Bounds of the model.
MaxEpoch == 3
MaxInterval == 2
MaxBatch == 1
MaxIgnore == 2
MaxSteps == 2
MaxBaseLr == 2
MaxRuns == 2
MaxClock == 2
MaxSample == 3

VARIABLES
    arg,          \* self.arg: the resolved configuration
    num_batch,    \* len(self.data_loader['train'])
    files,        \* the file system: path -> [exists, bytes]
    model,        \* self.model's parameters: name -> value
    lr,           \* param_group['lr'] of self.optimizer (fixed point)
    report,       \* what load_model printed, in order
    pc,           \* where the process is
    error,        \* the exception that ended the process, or "none"
    epoch,        \* the loop variable of start()
    batch_idx,    \* the loop variable of train()
    save_model,   \* local of start()
    eval_model,   \* local of start()
    trained,      \* history: epochs whose batches and statistics are done, in order
    saved,        \* history: epochs whose checkpoint was fully written
    evaluated,    \* history: epochs for which eval() computed scores
    scored,       \* history: epochs whose score file was written
    steps,        \* history: optimizer steps taken by this process
    run,          \* history: number of processes started so far
    saved_state,  \* history: path -> the state_dict handed to pickle.dump
    config_keys,  \* the keys of the --config file (none without one)
    ticks,        \* the values time.time() may return
    sample_name,  \* data_loader['test'].dataset.sample_name
    test_batch_size, \* self.arg.test_batch_size
    cur_time,     \* self.cur_time
    timer,        \* local of train(): the three timing buckets
    proportion,   \* local of train(): the buckets' shares in percent
    score_dict,   \* local of eval(): sample name -> output
    eval_state,   \* history: epoch -> the parameters eval() ran on
    step_rates    \* history: <<epoch, lr>> of every optimizer step

\* What the environment fixes for a run.
env == <<config_keys, ticks, sample_name, test_batch_size>>

\* The timing state of train().
timing == <<cur_time, timer, proportion>>

\* What eval() produces.
eval_out == <<score_dict, eval_state>>

vars == <<arg, num_batch, files, model, lr, report, pc, error, epoch,
          batch_idx, save_model, eval_model, trained, saved, evaluated,
          scored, steps, run, saved_state, env, timing, eval_out, step_rates>>

----------------------------------------------------------------------------
\* Parameter names and values.

ModelKeys ==
    <<"conv.weight", "fc.weight">>

ModelKeySet ==
    {ModelKeys[i] : i \in DOMAIN ModelKeys}

AllKeyOrder ==
    ModelKeys \o <<"old.bias">>

AllKeys ==
    {AllKeyOrder[i] : i \in DOMAIN AllKeyOrder}

KeyIndex(k) ==
    CHOOSE i \in DOMAIN AllKeyOrder : AllKeyOrder[i] = k

InitParams ==
    [k \in ModelKeySet |-> 10 * KeyIndex(k)]

ExtValue(k) ==
    0 - KeyIndex(k)

state_dict(m) ==
    [i \in DOMAIN ModelKeys |-> <<ModelKeys[i], m[ModelKeys[i]]>>]

Keys(sd) ==
    {sd[i][1] : i \in DOMAIN sd}

Value(sd, k) ==
    sd[CHOOSE i \in DOMAIN sd : sd[i][1] = k][2]

----------------------------------------------------------------------------
\* Files and pickle.

NoWeights ==
    <<"", 0>>

WeightsFile ==
    <<"weights.pkl", 0>>

ModelPath(e) ==
    <<"epoch_model.pkl", e + 1>>

CheckpointPaths ==
    {ModelPath(e) : e \in 0..(MaxEpoch - 1)}

Paths ==
    {WeightsFile} \cup CheckpointPaths

Absent ==
    [exists |-> FALSE, bytes |-> <<>>]

STOP ==
    <<".", 0>>

pickle_dump(sd) ==
    Append(sd, STOP)

Unpicklable(bytes) ==
    Len(bytes) > 0 /\ bytes[Len(bytes)] = STOP

pickle_load(bytes) ==
    SubSeq(bytes, 1, Len(bytes) - 1)

----------------------------------------------------------------------------
\* load_model: removing the ignored weights and loading the rest.

pop_keeps(weights, w) ==
    weights

\* weights.pop(w, None)
pop(weights, w) ==
    SelectSeq(weights, LAMBDA p : p[1] # w)

RECURSIVE remove_ignored(_, _)
remove_ignored(weights, ignore) ==
    IF ignore = <<>>
    THEN [weights |-> weights, out |-> <<>>]
    ELSE LET w == Head(ignore)
             found == w \in Keys(weights)
             rest == remove_ignored(pop(weights, w), Tail(ignore))
         IN  [weights |-> rest.weights,
              out |-> <<<<IF found THEN "Sucessfully Remove Weights"
                                   ELSE "Can Not Remove Weights", w>>>>
                      \o rest.out]

\* torch's Module.load_state_dict (strict): the entries are copied in order
\* into the parameters of the same name; an entry the module does not have
\* raises, and so does a parameter the entries do not cover.
RECURSIVE copy_params(_, _)
copy_params(own, sd) ==
    IF sd = <<>>
    THEN [ok |-> TRUE, model |-> own]
    ELSE LET name == Head(sd)[1]
         IN  IF name \in DOMAIN own
             THEN copy_params([own EXCEPT ![name] = Head(sd)[2]], Tail(sd))
             ELSE [ok |-> FALSE, model |-> own]

load_state_dict(own, sd) ==
    LET r == copy_params(own, sd)
    IN  IF r.ok
        THEN [ok |-> (DOMAIN own) \subseteq Keys(sd), model |-> r.model]
        ELSE r

\* dict.update: a key the dict has keeps its place and takes the new value,
\* a new key is added at the end.
RECURSIVE update(_, _)
update(state, weights) ==
    IF weights = <<>>
    THEN state
    ELSE LET k == Head(weights)[1]
             v == Head(weights)[2]
             s == IF k \in Keys(state)
                  THEN [i \in DOMAIN state |->
                           IF state[i][1] = k THEN <<k, v>> ELSE state[i]]
                  ELSE Append(state, <<k, v>>)
         IN  update(s, Tail(weights))

\* set(state.keys()).difference(set(weights.keys()))
missing_keys(m, weights) ==
    {k \in DOMAIN m : k \notin Keys(weights)}

\* list(S): the elements of a set in an order the language does not fix.
list_of_set(S) ==
    {q \in [1..Cardinality(S) -> S] : \A i, j \in DOMAIN q : q[i] = q[j] => i = j}

missing_report(diff) ==
    <<<<"Can not find these weights:", "">>>>
    \o [i \in DOMAIN diff |-> <<"  ", diff[i]>>]

reconcile_skips_load(m, weights, diff) ==
    [ok |-> load_state_dict(m, weights).ok, model |-> m, out |-> <<>>]

\* The try/except of load_model, from the weights left after the removals,
\* diff being the missing names in the order they are listed:
\* [ok, model, out].
reconcile(m, weights, diff) ==
    LET first == load_state_dict(m, weights)
    IN  IF first.ok
        THEN [ok |-> TRUE, model |-> first.model, out |-> <<>>]
        ELSE LET state == update(state_dict(first.model), weights)
                 second == load_state_dict(first.model, state)
             IN  [ok |-> second.ok, model |-> second.model,
                  out |-> missing_report(diff)]

----------------------------------------------------------------------------
\* The learning-rate schedule and the orchestrator's per-epoch decisions.

RECURSIVE count_steps_strict(_, _)
count_steps_strict(e, step) ==
    IF step = <<>>
    THEN 0
    ELSE (IF e > Head(step) THEN 1 ELSE 0) + count_steps_strict(e, Tail(step))

\* np.sum(epoch >= np.array(step))
RECURSIVE count_steps(_, _)
count_steps(e, step) ==
    IF step = <<>>
    THEN 0
    ELSE (IF e >= Head(step) THEN 1 ELSE 0) + count_steps(e, Tail(step))

scaled(base_lr, c) ==
    base_lr * 10 ^ (MaxSteps - c)

adjust_learning_rate_cached(e) ==
    scaled(arg.base_lr, count_steps(arg.start_epoch, arg.step))

adjust_learning_rate(e) ==
    scaled(arg.base_lr, count_steps(e, arg.step))

save_model_flag_off_by_one(e) ==
    (e % arg.save_interval = 0) \/ (e + 1 = arg.num_epoch)

save_model_flag(e) ==
    ((e + 1) % arg.save_interval = 0) \/ (e + 1 = arg.num_epoch)

eval_model_flag_no_last(e) ==
    (e + 1) % arg.eval_interval = 0

eval_model_flag(e) ==
    ((e + 1) % arg.eval_interval = 0) \/ (e + 1 = arg.num_epoch)

optimizer_step(m) ==
    [k \in DOMAIN m |-> m[k] + 1]

start_target_always_train(phase) ==
    "loop"

\* start: the phase decides between the epoch loop and one evaluation.
start_target(phase) ==
    IF phase = "train" THEN "loop"
    ELSE IF phase = "test" THEN "eval" ELSE "done"

\* The names the argument parser knows: the keys of vars(p).
KnownArgs ==
    {"work_dir", "config", "seed", "log_interval", "save_interval",
     "eval_interval", "print_log", "show_topk", "num_class", "model",
     "model_args", "weights", "ignore_weights", "feeder", "num_worker",
     "train_feeder_args", "test_feeder_args", "phase", "step", "device",
     "parallel_device", "optimizer", "nesterov", "batch_size",
     "test_batch_size", "start_epoch", "num_epoch", "base_lr", "weight_decay"}

supported_optimizer_any(o) ==
    TRUE

\* load_optimizer builds SGD or Adam and raises ValueError for the rest.
supported_optimizer(o) ==
    o \in {"SGD", "Adam"}

----------------------------------------------------------------------------
\* Initial states: a process about to parse its arguments.

SeqsUpTo(S, n) ==
    UNION {[1..m -> S] : m \in 0..n}

DefaultStep ==
    <<1, 2>>

Optimizers ==
    {"SGD", "Adam", "RMSprop"}

\* A weights file written by some other program: the parameters named in S.
ExternalWeights(S) ==
    [exists |-> TRUE,
     bytes |-> pickle_dump([i \in DOMAIN SelectSeq(AllKeyOrder, LAMBDA k : k \in S) |->
                  <<SelectSeq(AllKeyOrder, LAMBDA k : k \in S)[i],
                    ExtValue(SelectSeq(AllKeyOrder, LAMBDA k : k \in S)[i])>>])]

Epsilon == 1

Buckets ==
    {"dataloader", "model", "statistics"}

DefaultSamples ==
    <<"S001", "S002">>

\* No config file, a clock that stands still, two test samples in batches
\* of one.
DefaultEnv ==
    /\ config_keys = {}
    /\ ticks = {0}
    /\ sample_name = DefaultSamples
    /\ test_batch_size = 1

FreshProcess ==
    /\ cur_time = 0
    /\ timer = [k \in Buckets |-> Epsilon]
    /\ proportion = [k \in Buckets |-> 0]
    /\ score_dict = <<>>
    /\ eval_state = [e \in 0..MaxEpoch |-> <<>>]
    /\ step_rates = {}
    /\ model = InitParams
    /\ lr = 0
    /\ report = <<>>
    /\ pc = "parse_args"
    /\ error = "none"
    /\ epoch = 0
    /\ batch_idx = 0
    /\ save_model = FALSE
    /\ eval_model = FALSE
    /\ trained = <<>>
    /\ saved = {}
    /\ evaluated = <<>>
    /\ scored = {}
    /\ steps = 0

\* Every epoch range, interval and phase; no weights to load.
Init ==
    /\ arg \in [phase : {"train", "test"},
                start_epoch : 0..MaxEpoch,
                num_epoch : 0..MaxEpoch,
                save_interval : 1..MaxInterval,
                eval_interval : 1..MaxInterval,
                weights : {NoWeights},
                ignore_weights : {<<>>},
                step : {DefaultStep},
                base_lr : {1},
                optimizer : {"SGD"}]
    /\ num_batch \in {0, MaxBatch}
    /\ files = [p \in Paths |-> Absent]
    /\ saved_state = [p \in Paths |-> <<>>]
    /\ run = 1
    /\ DefaultEnv
    /\ FreshProcess

\* Every weights file and every list of ignored weights; one epoch.
InitLoad ==
    /\ arg \in [phase : {"train", "test"},
                start_epoch : {0},
                num_epoch : {1},
                save_interval : {1},
                eval_interval : {1},
                weights : {WeightsFile},
                ignore_weights : SeqsUpTo(AllKeys, MaxIgnore),
                step : {DefaultStep},
                base_lr : {1},
                optimizer : {"SGD"}]
    /\ num_batch = MaxBatch
    /\ \E f \in {Absent, [exists |-> TRUE, bytes |-> <<>>]}
                \cup {ExternalWeights(S) : S \in SUBSET AllKeys} :
          files = [p \in Paths |-> IF p = WeightsFile THEN f ELSE Absent]
    /\ saved_state = [p \in Paths |-> <<>>]
    /\ run = 1
    /\ DefaultEnv
    /\ FreshProcess

ConfigKeys ==
    {"base_lr", "seed", "learning_rate"}

\* Every optimizer and every config file over two known keys and an unknown
\* one.
InitConfig ==
    /\ arg \in [phase : {"train", "test"},
                start_epoch : {0},
                num_epoch : 1..MaxEpoch,
                save_interval : {1},
                eval_interval : {1},
                weights : {NoWeights},
                ignore_weights : {<<>>},
                step : {DefaultStep},
                base_lr : {1},
                optimizer : Optimizers]
    /\ num_batch \in {0, MaxBatch}
    /\ files = [p \in Paths |-> Absent]
    /\ saved_state = [p \in Paths |-> <<>>]
    /\ run = 1
    /\ config_keys \in SUBSET ConfigKeys
    /\ ticks = {0}
    /\ sample_name = DefaultSamples
    /\ test_batch_size = 1
    /\ FreshProcess

\* Every sequence of clock readings over one epoch.
InitTime ==
    /\ arg \in [phase : {"train"},
                start_epoch : {0},
                num_epoch : {1},
                save_interval : {1},
                eval_interval : {1},
                weights : {NoWeights},
                ignore_weights : {<<>>},
                step : {DefaultStep},
                base_lr : {1},
                optimizer : {"SGD"}]
    /\ num_batch \in 0..MaxBatch
    /\ files = [p \in Paths |-> Absent]
    /\ saved_state = [p \in Paths |-> <<>>]
    /\ run = 1
    /\ config_keys = {}
    /\ ticks = 0..MaxClock
    /\ sample_name = DefaultSamples
    /\ test_batch_size = 1
    /\ FreshProcess

SampleIds ==
    {"S001", "S002", "S003"}

\* Every test split of up to MaxSample samples, with repeated names too, and
\* every test batch size.
InitEval ==
    /\ arg \in [phase : {"train", "test"},
                start_epoch : {0},
                num_epoch : {1},
                save_interval : {1},
                eval_interval : {1},
                weights : {NoWeights},
                ignore_weights : {<<>>},
                step : {DefaultStep},
                base_lr : {1},
                optimizer : {"SGD"}]
    /\ num_batch = MaxBatch
    /\ files = [p \in Paths |-> Absent]
    /\ saved_state = [p \in Paths |-> <<>>]
    /\ run = 1
    /\ config_keys = {}
    /\ ticks = {0}
    /\ sample_name \in SeqsUpTo(SampleIds, MaxSample)
    /\ test_batch_size \in 1..MaxSample
    /\ FreshProcess

\* Every step schedule, base rate and optimizer; the whole epoch range.
InitLr ==
    /\ arg \in [phase : {"train"},
                start_epoch : {0},
                num_epoch : {MaxEpoch},
                save_interval : {MaxInterval},
                eval_interval : {MaxInterval},
                weights : {NoWeights},
                ignore_weights : {<<>>},
                step : SeqsUpTo(0..MaxEpoch, MaxSteps),
                base_lr : 0..MaxBaseLr,
                optimizer : Optimizers]
    /\ num_batch = MaxBatch
    /\ files = [p \in Paths |-> Absent]
    /\ saved_state = [p \in Paths |-> <<>>]
    /\ run = 1
    /\ DefaultEnv
    /\ FreshProcess

----------------------------------------------------------------------------
\* __main__ and Processor.__init__

Abort_carries_on(e) ==
    /\ pc' = pc
    /\ error' = e

\* An exception nothing catches ends the process.
Abort(e) ==
    /\ pc' = "aborted"
    /\ error' = e

\* The keys of the config file are checked against the parser's arguments;
\* an unknown key fails the assert before the Processor is built.
ParseArgs ==
    /\ pc = "parse_args"
    /\ IF config_keys \subseteq KnownArgs
       THEN pc' = "load_model" /\ error' = error
       ELSE Abort("main:AssertionError")
    /\ UNCHANGED <<env, timing, eval_out, step_rates, arg, num_batch, files,
                   model, lr, report, epoch, batch_idx, save_model,
                   eval_model, trained, saved, evaluated, scored, steps, run,
                   saved_state>>

\* What pickle.load raises on a file that is not a whole pickle: EOFError
\* when the file is empty or ends between two writes of the dump, and one of
\* several errors when it ends inside one.
pickle_errors(bytes) ==
    IF bytes = <<>>
    THEN {"EOFError"}
    ELSE {"EOFError", "AttributeError", "ValueError", "ImportError", "KeyError"}

\* load_model: open and unpickle the weights, drop the ignored ones, load
\* the rest, listing the missing names in the order of a set; an unreadable
\* file or a second failing load_state_dict ends the process.
LoadModel ==
    /\ pc = "load_model"
    /\ IF arg.weights = NoWeights
       THEN /\ pc' = "load_optimizer"
            /\ UNCHANGED <<model, report, error>>
       ELSE IF ~files[arg.weights].exists
       THEN /\ Abort("load_model:IOError")
            /\ UNCHANGED <<model, report>>
       ELSE IF ~Unpicklable(files[arg.weights].bytes)
       THEN /\ \E e \in pickle_errors(files[arg.weights].bytes) :
                  Abort("load_model:" \o e)
            /\ UNCHANGED <<model, report>>
       ELSE LET removed == remove_ignored(pickle_load(files[arg.weights].bytes),
                                          arg.ignore_weights)
            IN  \E diff \in list_of_set(missing_keys(model, removed.weights)) :
                   LET loaded == reconcile(model, removed.weights, diff)
                   IN  /\ model' = loaded.model
                       /\ report' = removed.out \o loaded.out
                       /\ IF loaded.ok
                          THEN pc' = "load_optimizer" /\ error' = error
                          ELSE Abort("load_model:KeyError")
    /\ UNCHANGED <<env, timing, eval_out, step_rates, arg, num_batch, files, lr, epoch, batch_idx, save_model,
                   eval_model, trained, saved, evaluated, scored, steps, run,
                   saved_state>>

\* load_optimizer: SGD or Adam at base_lr; anything else raises ValueError.
LoadOptimizer ==
    /\ pc = "load_optimizer"
    /\ IF supported_optimizer(arg.optimizer)
       THEN /\ lr' = scaled(arg.base_lr, 0)
            /\ pc' = "start"
            /\ error' = error
       ELSE /\ Abort("load_optimizer:ValueError")
            /\ lr' = lr
    /\ UNCHANGED <<env, timing, eval_out, step_rates, arg, num_batch, files, model, report, epoch, batch_idx,
                   save_model, eval_model, trained, saved, evaluated, scored,
                   steps, run, saved_state>>

----------------------------------------------------------------------------
\* Processor.start, train and eval

\* start: the first epoch is start_epoch in both phases.
Start ==
    /\ pc = "start"
    /\ epoch' = arg.start_epoch
    /\ pc' = start_target(arg.phase)
    /\ UNCHANGED <<env, timing, eval_out, step_rates, arg, num_batch, files, model, lr, report, error, batch_idx,
                   save_model, eval_model, trained, saved, evaluated, scored,
                   steps, run, saved_state>>

\* The head of the for loop: the next epoch of range(start_epoch, num_epoch)
\* and its two flags, or the end of the run.
NextEpoch ==
    /\ pc = "loop"
    /\ IF epoch < arg.num_epoch
       THEN /\ save_model' = save_model_flag(epoch)
            /\ eval_model' = eval_model_flag(epoch)
            /\ pc' = "train"
       ELSE /\ pc' = "done"
            /\ UNCHANGED <<save_model, eval_model>>
    /\ UNCHANGED <<env, timing, eval_out, step_rates, arg, num_batch, files, model, lr, report, error, epoch,
                   batch_idx, trained, saved, evaluated, scored, steps, run,
                   saved_state>>

\* train, up to the batch loop: the learning rate of this epoch is set.
TrainBegin ==
    /\ pc = "train"
    /\ IF arg.optimizer \in {"SGD", "Adam"}
       THEN /\ lr' = adjust_learning_rate(epoch)
            /\ batch_idx' = 0
            /\ pc' = "batch"
            /\ error' = error
            /\ \E t \in ticks : cur_time' = t
            /\ timer' = [k \in Buckets |-> Epsilon]
       ELSE /\ Abort("train:ValueError")
            /\ UNCHANGED <<lr, batch_idx, cur_time, timer>>
    /\ UNCHANGED <<env, proportion, eval_out, step_rates, arg, num_batch,
                   files, model, report, epoch, save_model, eval_model,
                   trained, saved, evaluated, scored, steps, run, saved_state>>

\* split_time: the time since self.cur_time by one reading of the clock,
\* and record_time then reads the clock again for the new self.cur_time.
split_time(t) ==
    t - cur_time

\* One batch: the data, then forward, backward and the optimizer step, then
\* the statistics, each followed by a split_time that is added to its
\* bucket. A failure raises out of train from where it happens: while the
\* batch is fetched, in the computation after the first split, or in the
\* statistics after the optimizer step and the second split.
TrainBatch ==
    /\ pc = "batch"
    /\ batch_idx < num_batch
    /\ \E ok \in BOOLEAN :
          IF ok
          THEN /\ model' = optimizer_step(model)
               /\ steps' = steps + 1
               /\ step_rates' = step_rates \cup {<<epoch, lr>>}
               /\ batch_idx' = batch_idx + 1
               /\ \E a1, b1, a2, b2, a3, b3 \in ticks :
                     /\ timer' = [timer EXCEPT
                                     !["dataloader"] = @ + split_time(a1),
                                     !["model"] = @ + (a2 - b1),
                                     !["statistics"] = @ + (a3 - b2)]
                     /\ cur_time' = b3
               /\ UNCHANGED <<pc, error>>
          ELSE /\ Abort("train:RuntimeError")
               /\ UNCHANGED batch_idx
               /\ \/ UNCHANGED <<model, steps, step_rates, cur_time, timer>>
                  \/ /\ \E a1, b1 \in ticks :
                           /\ timer' = [timer EXCEPT
                                           !["dataloader"] = @ + split_time(a1)]
                           /\ cur_time' = b1
                     /\ UNCHANGED <<model, steps, step_rates>>
                  \/ /\ model' = optimizer_step(model)
                     /\ steps' = steps + 1
                     /\ step_rates' = step_rates \cup {<<epoch, lr>>}
                     /\ \E a1, b1, a2, b2 \in ticks :
                           /\ timer' = [timer EXCEPT
                                           !["dataloader"] = @ + split_time(a1),
                                           !["model"] = @ + (a2 - b1)]
                           /\ cur_time' = b2
    /\ UNCHANGED <<env, proportion, eval_out, arg, num_batch, files, lr,
                   report, epoch, save_model, eval_model, trained, saved,
                   evaluated, scored, run, saved_state>>

batches_done_early ==
    batch_idx <= num_batch

\* The batch loop of train() ends when the loader is exhausted.
batches_done ==
    batch_idx = num_batch

AfterTrain_skips ==
    IF eval_model
    THEN pc' = "eval" /\ epoch' = epoch
    ELSE pc' = "loop" /\ epoch' = epoch + 2

\* What follows train in the loop body: eval if due, then the next epoch.
AfterTrain ==
    IF eval_model
    THEN pc' = "eval" /\ epoch' = epoch
    ELSE pc' = "loop" /\ epoch' = epoch + 1

Abs(x) ==
    IF x < 0 THEN 0 - x ELSE x

\* int(round(n / d)) for d # 0: round goes to the nearest integer, a half
\* away from zero.
int_round(n, d) ==
    LET q == (2 * Abs(n) + Abs(d)) \div (2 * Abs(d))
    IN  IF (n < 0) # (d < 0) THEN 0 - q ELSE q

timer_sum ==
    timer["dataloader"] + timer["model"] + timer["statistics"]

\* The end of the batch loop: the buckets' shares are computed, which
\* divides by their sum, the statistics are logged, and the checkpoint is
\* opened if save_model is set.
TrainEnd ==
    /\ pc = "batch"
    /\ batches_done
    /\ IF timer_sum = 0
       THEN /\ Abort("train:ZeroDivisionError")
            /\ UNCHANGED <<proportion, trained, epoch>>
       ELSE /\ proportion' = [k \in Buckets |-> int_round(timer[k] * 100, timer_sum)]
            /\ trained' = Append(trained, epoch)
            /\ error' = error
            /\ IF save_model
               THEN pc' = "save_open" /\ epoch' = epoch
               ELSE AfterTrain
    /\ UNCHANGED <<env, cur_time, timer, eval_out, step_rates, arg, num_batch,
                   files, model, lr, report, batch_idx, save_model,
                   eval_model, saved, evaluated, scored, steps, run,
                   saved_state>>

\* open(model_path, 'w'): the file is created or truncated, or open fails.
SaveOpen ==
    /\ pc = "save_open"
    /\ \E ok \in BOOLEAN :
          IF ok
          THEN /\ files' = [files EXCEPT ![ModelPath(epoch)] =
                                [exists |-> TRUE, bytes |-> <<>>]]
               /\ saved_state' = [saved_state EXCEPT ![ModelPath(epoch)] =
                                      state_dict(model)]
               /\ pc' = "save_write"
               /\ error' = error
          ELSE /\ Abort("train:IOError")
               /\ UNCHANGED <<files, saved_state>>
    /\ UNCHANGED <<env, timing, eval_out, step_rates, arg, num_batch, model, lr, report, epoch, batch_idx,
                   save_model, eval_model, trained, saved, evaluated, scored,
                   steps, run>>

\* pickle.dump writes the state_dict piece by piece; a write may fail.
SaveWrite ==
    /\ pc = "save_write"
    /\ Len(files[ModelPath(epoch)].bytes) < Len(pickle_dump(state_dict(model)))
    /\ \E ok \in BOOLEAN :
          IF ok
          THEN /\ files' = [files EXCEPT ![ModelPath(epoch)].bytes =
                                Append(@, pickle_dump(state_dict(model))[Len(@) + 1])]
               /\ UNCHANGED <<pc, error>>
          ELSE /\ Abort("train:IOError")
               /\ UNCHANGED files
    /\ UNCHANGED <<env, timing, eval_out, step_rates, arg, num_batch, model, lr, report, epoch, batch_idx,
                   save_model, eval_model, trained, saved, evaluated, scored,
                   steps, run, saved_state>>

\* The file is closed and the save is logged; train returns.
SaveClose ==
    /\ pc = "save_write"
    /\ Len(files[ModelPath(epoch)].bytes) = Len(pickle_dump(state_dict(model)))
    /\ saved' = saved \cup {epoch}
    /\ AfterTrain
    /\ UNCHANGED <<env, timing, eval_out, step_rates, arg, num_batch, files, model, lr, report, error, batch_idx,
                   save_model, eval_model, trained, evaluated, scored, steps,
                   run, saved_state>>

\* The output of the model for the test sample at position i.
forward(m, i) ==
    100 * i + m[ModelKeys[Len(ModelKeys)]]

eval_trains(m) ==
    optimizer_step(m)

\* A forward pass in inference mode leaves the parameters as they are.
eval_forward(m) ==
    m

Min(a, b) ==
    IF a <= b THEN a ELSE b

RECURSIVE score_frag_drop_last(_, _)
score_frag_drop_last(m, i) ==
    IF i + test_batch_size - 1 > Len(sample_name)
    THEN <<>>
    ELSE <<[j \in 1..test_batch_size |-> forward(m, i + j - 1)]>>
         \o score_frag_drop_last(m, i + test_batch_size)

\* The outputs of the batches from position i on: the loader is not
\* shuffled and keeps the last, shorter batch.
RECURSIVE score_frag(_, _)
score_frag(m, i) ==
    IF i > Len(sample_name)
    THEN <<>>
    ELSE <<[j \in 1..(Min(i + test_batch_size - 1, Len(sample_name)) - i + 1) |->
               forward(m, i + j - 1)]>>
         \o score_frag(m, i + test_batch_size)

\* np.concatenate
RECURSIVE concatenate(_)
concatenate(frags) ==
    IF frags = <<>> THEN <<>> ELSE Head(frags) \o concatenate(Tail(frags))

\* dict(zip(names, score)): the pairs up to the shorter length, a repeated
\* name keeping its last score.
zip_dict(names, score) ==
    LET n == Min(Len(names), Len(score))
    IN  [id \in {names[i] : i \in 1..n} |->
            score[CHOOSE i \in 1..n :
                     names[i] = id /\ \A j \in 1..n : names[j] = id => j <= i]]

\* eval(epoch, save_score=True, loader_name=['test']): the outputs of all
\* test batches are concatenated (which fails when there is none) and keyed
\* by sample name, the top-k accuracies are logged, then the score file is
\* written, which may fail.
Eval ==
    /\ pc = "eval"
    /\ IF score_frag(model, 1) = <<>>
       THEN /\ Abort("eval:ValueError")
            /\ UNCHANGED <<model, evaluated, scored, epoch, score_dict, eval_state>>
       ELSE /\ model' = eval_forward(model)
            /\ score_dict' = zip_dict(sample_name, concatenate(score_frag(model, 1)))
            /\ eval_state' = [eval_state EXCEPT ![epoch] = state_dict(model)]
            /\ evaluated' = Append(evaluated, epoch)
            /\ \E ok \in BOOLEAN :
                  IF ok
                  THEN /\ scored' = scored \cup {epoch}
                       /\ error' = error
                       /\ IF arg.phase = "train"
                          THEN pc' = "loop" /\ epoch' = epoch + 1
                          ELSE pc' = "done" /\ epoch' = epoch
                  ELSE /\ Abort("eval:IOError")
                       /\ UNCHANGED <<scored, epoch>>
    /\ UNCHANGED <<env, timing, step_rates, arg, num_batch, files, lr, report,
                   batch_idx, save_model, eval_model, trained, saved, steps,
                   run, saved_state>>

\* The program is run again with the same arguments, except that --weights
\* names a checkpoint an earlier run left in the work directory.
Restart ==
    /\ pc \in {"done", "aborted"}
    /\ run < MaxRuns
    /\ \E p \in CheckpointPaths :
          /\ files[p].exists
          /\ arg' = [arg EXCEPT !.weights = p]
    /\ run' = run + 1
    /\ model' = InitParams
    /\ lr' = 0
    /\ report' = <<>>
    /\ pc' = "parse_args"
    /\ error' = "none"
    /\ epoch' = 0
    /\ batch_idx' = 0
    /\ save_model' = FALSE
    /\ eval_model' = FALSE
    /\ trained' = <<>>
    /\ saved' = {}
    /\ evaluated' = <<>>
    /\ scored' = {}
    /\ steps' = 0
    /\ cur_time' = 0
    /\ timer' = [k \in Buckets |-> Epsilon]
    /\ proportion' = [k \in Buckets |-> 0]
    /\ score_dict' = <<>>
    /\ eval_state' = [e \in 0..MaxEpoch |-> <<>>]
    /\ step_rates' = {}
    /\ UNCHANGED <<env, num_batch, files, saved_state>>

Next ==
    \/ ParseArgs
    \/ LoadModel
    \/ LoadOptimizer
    \/ Start
    \/ NextEpoch
    \/ TrainBegin
    \/ TrainBatch
    \/ TrainEnd
    \/ SaveOpen
    \/ SaveWrite
    \/ SaveClose
    \/ Eval
    \/ Restart

Spec ==
    Init /\ [][Next]_vars

SpecLoad ==
    InitLoad /\ [][Next]_vars

SpecLr ==
    InitLr /\ [][Next]_vars

SpecConfig ==
    InitConfig /\ [][Next]_vars

SpecTime ==
    InitTime /\ [][Next]_vars

SpecEval ==
    InitEval /\ [][Next]_vars

\* The steps of a running process: every action but the user's running the
\* program again.
ProcessStep ==
    \/ ParseArgs
    \/ LoadModel
    \/ LoadOptimizer
    \/ Start
    \/ NextEpoch
    \/ TrainBegin
    \/ TrainBatch
    \/ TrainEnd
    \/ SaveOpen
    \/ SaveWrite
    \/ SaveClose
    \/ Eval

\* A process, once started, keeps executing: a step of it that can be taken
\* is taken. Nothing obliges anyone to run the program again.
SpecLive ==
    Init /\ [][Next]_vars /\ WF_vars(ProcessStep)

----------------------------------------------------------------------------
\* Properties of the orchestrator.

EpochRange ==
    arg.start_epoch..(arg.num_epoch - 1)

\* The epochs whose loop iteration has ended.
Completed ==
    arg.start_epoch..(epoch - 1)

Occurrences(seq, x) ==
    Cardinality({i \in DOMAIN seq : seq[i] = x})

\* C1: in Train phase the checkpoint of epoch e is written, after the last
\* batch of e, iff (e+1) mod save_interval = 0 or e+1 = num_epoch: every
\* epoch that has ended has its checkpoint exactly when it is due, a save is
\* only ever in progress for a due epoch whose batches are done, and no
\* checkpoint file exists for any other epoch.
C1_CheckpointCadence ==
    arg.phase = "train" =>
        /\ \A e \in saved :
              /\ e \in EpochRange
              /\ ((e + 1) % arg.save_interval = 0) \/ (e + 1 = arg.num_epoch)
        /\ \A e \in Completed \cup (IF pc = "eval" THEN {epoch} ELSE {}) :
              e \in saved <=>
                  ((e + 1) % arg.save_interval = 0) \/ (e + 1 = arg.num_epoch)
        /\ pc \in {"save_open", "save_write"} =>
              /\ ((epoch + 1) % arg.save_interval = 0) \/ (epoch + 1 = arg.num_epoch)
              /\ batch_idx = num_batch
              /\ trained # <<>> /\ trained[Len(trained)] = epoch
        /\ \A e \in 0..(MaxEpoch - 1) :
              files[ModelPath(e)].exists =>
                  /\ e \in EpochRange
                  /\ ((e + 1) % arg.save_interval = 0) \/ (e + 1 = arg.num_epoch)

\* A finished run that saved an epoch on the interval alone and skipped
\* another one.
C1_Witness ==
    /\ arg.phase = "train"
    /\ pc = "done"
    /\ run = 1
    /\ \E e \in saved : e + 1 # arg.num_epoch
    /\ \E e \in EpochRange : e \notin saved
    /\ arg.num_epoch - 1 \in saved

\* C2: in Train phase eval runs (on 'test', saving the scores) for epoch e
\* iff (e+1) mod eval_interval = 0 or e+1 = num_epoch: every epoch that has
\* ended was evaluated once and scored when due and not at all otherwise,
\* and eval is only ever entered for a due epoch.
C2_EvalCadence ==
    arg.phase = "train" =>
        /\ \A i \in DOMAIN evaluated :
              /\ evaluated[i] \in EpochRange
              /\ ((evaluated[i] + 1) % arg.eval_interval = 0)
                    \/ (evaluated[i] + 1 = arg.num_epoch)
        /\ \A e \in scored : Occurrences(evaluated, e) = 1
        /\ \A e \in Completed :
              IF ((e + 1) % arg.eval_interval = 0) \/ (e + 1 = arg.num_epoch)
              THEN Occurrences(evaluated, e) = 1 /\ e \in scored
              ELSE Occurrences(evaluated, e) = 0 /\ e \notin scored
        /\ pc = "eval" =>
              /\ ((epoch + 1) % arg.eval_interval = 0) \/ (epoch + 1 = arg.num_epoch)
              /\ trained # <<>> /\ trained[Len(trained)] = epoch

\* A finished run that evaluated an epoch on the interval alone and skipped
\* another one.
C2_Witness ==
    /\ arg.phase = "train"
    /\ pc = "done"
    /\ run = 1
    /\ \E e \in scored : e + 1 # arg.num_epoch
    /\ \E e \in EpochRange : Occurrences(evaluated, e) = 0
    /\ arg.num_epoch - 1 \in scored

\* C3: in Test phase, whatever the epoch range and the intervals, the run
\* evaluates once, at start_epoch and with the scores saved, and ends; it
\* never trains (no optimizer step, the learning rate stays as the optimizer
\* was built) and never writes a checkpoint.
C3_TestPhase ==
    arg.phase = "test" =>
        /\ trained = <<>>
        /\ steps = 0
        /\ saved = {}
        /\ lr \in {0, scaled(arg.base_lr, 0)}
        /\ pc \notin {"loop", "train", "batch", "save_open", "save_write"}
        /\ \A p \in CheckpointPaths : ~files[p].exists
        /\ evaluated \in {<<>>, <<arg.start_epoch>>}
        /\ scored \subseteq {arg.start_epoch}
        /\ evaluated # <<>> => pc \in {"done", "aborted"}
        /\ pc = "done" => evaluated = <<arg.start_epoch>> /\ scored = {arg.start_epoch}

\* A Test run over an empty epoch range, past both step boundaries, that has
\* ended.
C3_Witness ==
    /\ arg.phase = "test"
    /\ pc = "done"
    /\ arg.start_epoch >= arg.num_epoch
    /\ arg.start_epoch >= 2
    /\ evaluated = <<arg.start_epoch>>

----------------------------------------------------------------------------
\* Properties of the learning-rate schedule.

\* C4: at every epoch e the scheduler's rate is base_lr * 0.1^c, c the number
\* of configured step boundaries <= e, for every step sequence (sorted or
\* not, with or without repeats); the rate is non-increasing in e; and this
\* is the rate the optimizer holds while the batches of e are processed.
C4_LrSchedule ==
    /\ \A e \in 0..MaxEpoch :
          adjust_learning_rate(e) =
              arg.base_lr * 10 ^ (MaxSteps -
                  Cardinality({i \in DOMAIN arg.step : arg.step[i] <= e}))
    /\ \A e1, e2 \in 0..MaxEpoch :
          e1 <= e2 => adjust_learning_rate(e2) <= adjust_learning_rate(e1)
    /\ pc = "batch" =>
          lr = arg.base_lr * 10 ^ (MaxSteps -
                  Cardinality({i \in DOMAIN arg.step : arg.step[i] <= epoch}))

\* An epoch that sits on the later of two unsorted boundaries is being
\* trained at base_lr * 0.1^2.
C4_Witness ==
    /\ pc = "batch"
    /\ Len(arg.step) = 2
    /\ arg.step[1] > arg.step[2]
    /\ epoch = arg.step[1]
    /\ lr = arg.base_lr * 10 ^ (MaxSteps - 2)
    /\ lr < scaled(arg.base_lr, 0)

----------------------------------------------------------------------------
\* Properties of load_model.

Range(seq) ==
    {seq[i] : i \in DOMAIN seq}

\* load_model has just read a snapshot from the weights file and tried to
\* load it: it returned, or load_state_dict raised.
JustLoaded ==
    /\ arg.weights # NoWeights
    /\ files[arg.weights].exists
    /\ Unpicklable(files[arg.weights].bytes)
    /\ \/ pc = "load_optimizer"
       \/ pc = "aborted" /\ error = "load_model:KeyError"

\* The snapshot as it was read from the weights file.
Snapshot ==
    pickle_load(files[arg.weights].bytes)

\* The names the snapshot holds after the exclusions.
IncomingKeys ==
    Keys(Snapshot) \ Range(arg.ignore_weights)

\* C5: whenever the snapshot, after the exclusions, lacks a key K of the
\* model, the load does not fail, K keeps its initialized value and exactly
\* one warning names K.
C5_MissingKeyTolerated ==
    JustLoaded =>
        \A K \in ModelKeySet \ IncomingKeys :
            /\ pc = "load_optimizer"
            /\ model[K] = InitParams[K]
            /\ Occurrences(report, <<"  ", K>>) = 1

\* C6: a snapshot with a key the model does not have loads without error and
\* every shared key takes the snapshot's value.
C6_ExtraKeyTolerated ==
    JustLoaded /\ IncomingKeys \ ModelKeySet # {} =>
        /\ pc = "load_optimizer"
        /\ \A k \in IncomingKeys \cap ModelKeySet : model[k] = Value(Snapshot, k)

\* C7: every key K of ignore_weights is removed from the snapshot before it
\* is loaded, present or not: the model's K keeps its initialized value, a
\* snapshot whose only foreign keys are ignored loads, and load_model prints
\* one line per listed key, in order, saying whether the key was there to
\* remove.
C7_IgnoredWeightsRemoved ==
    JustLoaded =>
        /\ \A K \in Range(arg.ignore_weights) \cap ModelKeySet :
              model[K] = InitParams[K]
        /\ \A k \in (IncomingKeys \cap ModelKeySet) :
              pc = "load_optimizer" => model[k] = Value(Snapshot, k)
        /\ IncomingKeys \subseteq ModelKeySet => pc = "load_optimizer"
        /\ Len(report) >= Len(arg.ignore_weights)
        /\ \A i \in DOMAIN arg.ignore_weights :
              report[i] =
                  <<IF /\ arg.ignore_weights[i] \in Keys(Snapshot)
                       /\ \A j \in 1..(i - 1) :
                             arg.ignore_weights[j] # arg.ignore_weights[i]
                    THEN "Sucessfully Remove Weights"
                    ELSE "Can Not Remove Weights",
                    arg.ignore_weights[i]>>

\* A snapshot holding a model key and the foreign key, both ignored together
\* with nothing else: it loads, and the ignored model key stays initialized
\* while the other one is taken from the snapshot.
C7_Witness ==
    /\ JustLoaded
    /\ pc = "load_optimizer"
    /\ arg.weights = WeightsFile
    /\ Keys(Snapshot) = AllKeys
    /\ Range(arg.ignore_weights) = {"fc.weight", "old.bias"}
    /\ model["fc.weight"] = InitParams["fc.weight"]
    /\ model["conv.weight"] = ExtValue("conv.weight")

\* C8: a checkpoint that train() saved, loaded by a new process into the same
\* model with no ignored weights, gives every parameter the value it had
\* when it was saved, without any warning.
C8_RoundTrip ==
    JustLoaded /\ arg.weights \in CheckpointPaths /\ arg.ignore_weights = <<>> =>
        /\ pc = "load_optimizer"
        /\ Keys(saved_state[arg.weights]) = ModelKeySet
        /\ \A k \in ModelKeySet : model[k] = Value(saved_state[arg.weights], k)
        /\ report = <<>>

\* A second process has loaded a checkpoint whose parameters had been
\* trained away from their initial values.
C8_Witness ==
    /\ JustLoaded
    /\ run = 2
    /\ arg.weights \in CheckpointPaths
    /\ arg.ignore_weights = <<>>
    /\ \A k \in ModelKeySet :
          model[k] = Value(saved_state[arg.weights], k) /\ model[k] # InitParams[k]

----------------------------------------------------------------------------
\* Properties of the checkpoint write.

\* C9: the file at a checkpoint path is never a partially written snapshot:
\* it is absent or a complete pickle of a state_dict.
C9_CheckpointAtomic ==
    \A p \in CheckpointPaths :
        files[p].exists =>
            /\ Unpicklable(files[p].bytes)
            /\ Keys(pickle_load(files[p].bytes)) = ModelKeySet

\* C10: a failing checkpoint write never ends the run.
C10_SaveFailureNotFatal ==
    ~(pc = "aborted" /\ error = "train:IOError")

----------------------------------------------------------------------------
\* Properties of failures.

\* C11: with an optimizer other than SGD or Adam, or a config file holding a
\* key the parser does not know, the process never gets as far as start():
\* no batch is trained, no checkpoint is written, no evaluation runs, and
\* the process ends on that error (an unknown key before anything is built).
C11_ConfigErrorAborts ==
    (arg.optimizer \notin {"SGD", "Adam"} \/ \E k \in config_keys : k \notin KnownArgs) =>
        /\ pc \in {"parse_args", "load_model", "load_optimizer", "aborted"}
        /\ (\E k \in config_keys : k \notin KnownArgs) => pc \in {"parse_args", "aborted"}
        /\ pc = "aborted" => error \in {"main:AssertionError", "load_optimizer:ValueError"}
        /\ steps = 0
        /\ trained = <<>>
        /\ saved = {}
        /\ evaluated = <<>>
        /\ scored = {}
        /\ \A p \in CheckpointPaths : ~files[p].exists

\* A Train run with a well-formed config file and an unsupported optimizer
\* has ended in load_optimizer.
C11_Witness ==
    /\ arg.phase = "train"
    /\ arg.optimizer = "RMSprop"
    /\ config_keys = {"base_lr", "seed"}
    /\ num_batch > 0
    /\ pc = "aborted"
    /\ error = "load_optimizer:ValueError"

\* C12: once the training step of epoch e has failed the process has ended:
\* e is not retried and counts as not trained, neither e nor any later epoch
\* is ever checkpointed or evaluated, and no later epoch is trained.
C12_TrainFailureFatal ==
    error = "train:RuntimeError" =>
        /\ pc = "aborted"
        /\ arg.phase = "train"
        /\ epoch \in EpochRange
        /\ batch_idx < num_batch
        /\ \A e \in epoch..MaxEpoch :
              /\ Occurrences(trained, e) = 0
              /\ e \notin saved
              /\ Occurrences(evaluated, e) = 0
              /\ e \notin scored
        /\ Len(trained) = epoch - arg.start_epoch

\* The training of a middle epoch, due for a checkpoint and an evaluation,
\* has failed.
C12_Witness ==
    /\ error = "train:RuntimeError"
    /\ pc = "aborted"
    /\ epoch > arg.start_epoch
    /\ epoch + 1 < arg.num_epoch
    /\ save_model
    /\ eval_model

----------------------------------------------------------------------------
\* Properties of the timing.

\* C13: whatever the clock returns, a split is never counted as negative: no
\* bucket is ever below the epsilon it starts from.
C13_BucketsNeverBelowEpsilon ==
    \A k \in Buckets : timer[k] >= Epsilon

\* C14: the shares are always computed (the sum of the buckets is never
\* zero) and, once computed, add up to 100 within 3.
C14_SharesSumTo100 ==
    /\ error # "train:ZeroDivisionError"
    /\ trained # <<>> =>
          Abs(proportion["dataloader"] + proportion["model"]
              + proportion["statistics"] - 100) <= 3

----------------------------------------------------------------------------
\* Properties of eval.

\* C15: when the score file of an evaluation cannot be written, the accuracy
\* of that pass has been computed and the run has not ended on that failure.
C15_ScoreFailureNotFatal ==
    error = "eval:IOError" =>
        /\ Occurrences(evaluated, epoch) = 1
        /\ pc # "aborted"

\* C16: training, checkpointing and evaluation follow one another. While
\* the checkpoint of epoch e is written every batch of e is done, e is not
\* yet evaluated and the model is the one being written; when the evaluation
\* of a checkpointed epoch starts the file is complete and holds the
\* parameters of the model; while batches are trained every checkpoint and
\* every evaluation of the run belongs to an earlier epoch; and the
\* checkpoint of e holds exactly the parameters the evaluation of e read.
C16_NoOverlap ==
    /\ pc \in {"save_open", "save_write"} =>
          /\ batch_idx = num_batch
          /\ Occurrences(trained, epoch) = 1
          /\ Occurrences(evaluated, epoch) = 0
    /\ pc = "save_write" => saved_state[ModelPath(epoch)] = state_dict(model)
    /\ pc = "eval" /\ arg.phase = "train" =>
          /\ batch_idx = num_batch
          /\ Occurrences(trained, epoch) = 1
          /\ save_model =>
                /\ epoch \in saved
                /\ Unpicklable(files[ModelPath(epoch)].bytes)
                /\ pickle_load(files[ModelPath(epoch)].bytes) = state_dict(model)
    /\ pc = "batch" =>
          /\ \A e \in saved : e < epoch
          /\ \A i \in DOMAIN evaluated : evaluated[i] < epoch
          /\ \A i \in DOMAIN trained : trained[i] < epoch
    /\ \A e \in saved :
          Occurrences(evaluated, e) > 0 =>
              pickle_load(files[ModelPath(e)].bytes) = eval_state[e]

\* Two epochs have been trained, checkpointed and evaluated, each on other
\* parameters, and each checkpoint holds what its evaluation read.
C16_Witness ==
    /\ arg.phase = "train"
    /\ num_batch > 0
    /\ \E e1, e2 \in saved :
          /\ e1 < e2
          /\ Occurrences(evaluated, e1) = 1
          /\ Occurrences(evaluated, e2) = 1
          /\ eval_state[e1] # eval_state[e2]
          /\ pickle_load(files[ModelPath(e1)].bytes) = eval_state[e1]
          /\ pickle_load(files[ModelPath(e2)].bytes) = eval_state[e2]

\* C17: a step of eval changes no parameter, takes no optimizer step and
\* leaves the learning rate alone.
C17_EvalFrame ==
    [][pc = "eval" => /\ \A k \in ModelKeySet : model'[k] = model[k]
                      /\ steps' = steps
                      /\ lr' = lr]_vars

\* An evaluation of trained parameters has ended and the model still holds
\* the parameters it read.
C17_Witness ==
    /\ pc \in {"loop", "done"}
    /\ evaluated # <<>>
    /\ steps > 0
    /\ \E k \in ModelKeySet : model[k] # InitParams[k]
    /\ eval_state[evaluated[Len(evaluated)]] = state_dict(model)

\* C18: every optimizer step of epoch e is taken at the rate of e,
\* base_lr * 0.1^c with c the number of step boundaries <= e, and the rate
\* held while the batches of e are processed is that rate.
C18_LrPerEpoch ==
    /\ \A r \in step_rates :
          r[2] = arg.base_lr * 10 ^ (MaxSteps -
                     Cardinality({i \in DOMAIN arg.step : arg.step[i] <= r[1]}))
    /\ pc = "batch" /\ batch_idx > 0 => <<epoch, lr>> \in step_rates

\* Optimizer steps have been taken in two epochs at two rates, the later
\* epoch at the lower one.
C18_Witness ==
    \E r1, r2 \in step_rates :
        /\ r1[1] < r2[1]
        /\ r2[2] < r1[2]

\* C19: after an evaluation of a split whose sample names are unique the
\* score record has exactly the names of the split as keys, and the name at
\* position i maps to the output of the model for the sample at position i.
C19_ScorePerSample ==
    (evaluated # <<>> /\ \A i, j \in DOMAIN sample_name :
                             sample_name[i] = sample_name[j] => i = j) =>
        /\ DOMAIN score_dict = Range(sample_name)
        /\ \A i \in DOMAIN sample_name :
              score_dict[sample_name[i]] =
                  100 * i + Value(eval_state[evaluated[Len(evaluated)]],
                                  ModelKeys[Len(ModelKeys)])

\* A split of three samples with unique names, not in sorted order, has been
\* evaluated in batches of two after an epoch of training.
C19_Witness ==
    /\ evaluated # <<>>
    /\ steps > 0
    /\ sample_name = <<"S002", "S003", "S001">>
    /\ test_batch_size = 2
    /\ score_dict["S001"] = 300 + model[ModelKeys[Len(ModelKeys)]]

----------------------------------------------------------------------------
\* Properties of the whole run.

\* C20: a Train run that has ended normally has trained the epochs of
\* [start_epoch, num_epoch) once each in increasing order, its last epoch
\* num_epoch-1 checkpointed and then evaluated; a run that did not end
\* normally ended on a failure; and every run ends.
C20_TrainRunTerminates ==
    /\ [](arg.phase = "train" /\ pc = "done" =>
            /\ trained = [i \in 1..Cardinality(EpochRange) |-> arg.start_epoch + i - 1]
            /\ EpochRange # {} =>
                  /\ trained[Len(trained)] = arg.num_epoch - 1
                  /\ arg.num_epoch - 1 \in saved
                  /\ evaluated # <<>>
                  /\ evaluated[Len(evaluated)] = arg.num_epoch - 1
                  /\ arg.num_epoch - 1 \in scored)
    /\ [](arg.phase = "train" /\ pc = "eval" /\ epoch = arg.num_epoch - 1 =>
            epoch \in saved)
    /\ [](pc = "aborted" => error # "none")
    /\ [](pc = "parse_args" => <>(pc \in {"done", "aborted"}))

\* A Train run over three epochs, the last one due only because it is the
\* last, has ended normally.
C20_Witness ==
    /\ arg.phase = "train"
    /\ pc = "done"
    /\ error = "none"
    /\ num_batch > 0
    /\ arg.start_epoch = 0
    /\ arg.num_epoch = 3
    /\ arg.save_interval = 2
    /\ arg.eval_interval = 2
    /\ trained = <<0, 1, 2>>
    /\ saved = {1, 2}
    /\ evaluated = <<1, 2>>

====
